---- MODULE Spec2Model ----
(***************************************************************************)
(* A model of create_scenarios.py, the PB-FHR scenario generator of pyrk.  *)
(*                                                                         *)
(* Numbers.  The script computes with Python floats.  The model keeps      *)
(* every quantity as an exact fixed-point integer:                         *)
(*   - power fractions (Scenario.p0, POWER_LEVELS) in thousandths,         *)
(*   - times in seconds, reactivity in pcm, power in watt,                 *)
(*   - temperatures in hundredths of a degree (K = 273.15 is 27315),       *)
(*   - a signed float whose sign matters at zero (delta_rho_pcm) as a      *)
(*     sign/magnitude pair, because Python's unary minus gives -0.0.       *)
(* A formatted value (f"{x:.6f}", f"{x:.6e}") is the string Python         *)
(* prints.  A text (the template, a deck, the manifest) is a sequence of   *)
(* chunks; a template chunk is a literal or a $-placeholder.               *)
(***************************************************************************)
EXTENDS Integers, Sequences, FiniteSets, TLC

(***************************************************************************)
(* Module-level configuration, create_scenarios.py lines 7-25.             *)
(***************************************************************************)
OUTPUT_ROOT == "pbfhr_runs"

P_NOM_TH == 236000000

\* [0.2, 0.3, 0.5, 0.7, 0.8] in thousandths
POWER_LEVELS == <<200, 300, 500, 700, 800>>

TEMP_BUCKETS == <<"low", "nominal", "high">>

PRE_RAMP_S == 2

RAMP_TIME_S == 300

POST_RAMP_S == 5

RHO_RATE_PCM_PER_MIN == 240

(***************************************************************************)
(* Bounds of the model (not program constants).                            *)
(***************************************************************************)
\* main() is started at most MaxRuns times on the same file system
MaxRuns == 2

\* ramp durations 0..MaxRamp seconds are tried besides RAMP_TIME_S
MaxRamp == 3

(***************************************************************************)
(* Formatting: what Python's format specifications print.                  *)
(***************************************************************************)
RECURSIVE Pow10(_)
Pow10(n) == IF n = 0 THEN 1 ELSE 10 * Pow10(n - 1)

RECURSIVE NumDigits(_)
NumDigits(n) == IF n < 10 THEN 1 ELSE 1 + NumDigits(n \div 10)

\* n >= 0 printed with at least w digits, zero padded
RECURSIVE ZeroPad(_, _)
ZeroPad(n, w) ==
    IF NumDigits(n) >= w THEN ToString(n) ELSE "0" \o ZeroPad(n, w - 1)

\* f"{x:.6f}" for x = (-1)^neg * mag / scale, scale a power of ten <= 10^6
Fixed6(neg, mag, scale) ==
    (IF neg THEN "-" ELSE "")
        \o ToString(mag \div scale) \o "."
        \o ZeroPad((mag % scale) * (1000000 \div scale), 6)

\* f"{x:.6e}" for an integer x >= 0: seven significant digits, rounded
Sci6(x) ==
    IF x = 0 THEN "0.000000e+00"
    ELSE LET d  == NumDigits(x)
             m0 == IF d <= 7 THEN x * Pow10(7 - d)
                   ELSE (x + 5 * Pow10(d - 8)) \div Pow10(d - 7)
             up == m0 >= 10000000
             m  == IF up THEN m0 \div 10 ELSE m0
             e  == IF up THEN d ELSE d - 1
         IN  ToString(m \div 1000000) \o "." \o ZeroPad(m % 1000000, 6)
                 \o "e+" \o ZeroPad(e, 2)

(***************************************************************************)
(* generate_scenarios, lines 37-69.                                        *)
(***************************************************************************)
\* int(p0*100), p0 in thousandths: the product, truncated
Pct(p0) == (p0 * 100) \div 1000

RunNameNoBucket(p0, bucket, direction) ==
    "init" \o ToString(Pct(p0)) \o "-" \o direction

\* f"init{int(p0*100)}-{bucket}-up" and "...-down"
RunName(p0, bucket, direction) ==
    "init" \o ToString(Pct(p0)) \o "-" \o bucket \o "-" \o direction

\* the Scenario dataclass, lines 28-34
Scenario(p0, direction, bucket, t_ramp_s, run_name) ==
    [p0 |-> p0, direction |-> direction, bucket |-> bucket,
     t_ramp_s |-> t_ramp_s, run_name |-> run_name]

UpOnlyAtTop(bucket, p0) ==
    IF p0 = POWER_LEVELS[Len(POWER_LEVELS)]
    THEN << Scenario(p0, "down", bucket, RAMP_TIME_S, RunName(p0, bucket, "down")) >>
    ELSE << Scenario(p0, "up", bucket, RAMP_TIME_S, RunName(p0, bucket, "up")),
            Scenario(p0, "down", bucket, RAMP_TIME_S, RunName(p0, bucket, "down")) >>

\* the body of the inner loop: the two appends of lines 46-68
LoopBody(bucket, p0) ==
    << Scenario(p0, "up", bucket, RAMP_TIME_S, RunName(p0, bucket, "up")),
       Scenario(p0, "down", bucket, RAMP_TIME_S, RunName(p0, bucket, "down")) >>

PowerOuterLoop(b, p) ==
    IF b < Len(TEMP_BUCKETS) THEN <<b + 1, p>> ELSE <<1, p + 1>>

\* the loop nest of lines 44-45: the indices of the iteration after (b, p)
NextIteration(b, p) ==
    IF p < Len(POWER_LEVELS) THEN <<b, p + 1>> ELSE <<b + 1, 1>>

LoopsDone(b, p) == b > Len(TEMP_BUCKETS) \/ p > Len(POWER_LEVELS)

(***************************************************************************)
(* initial_temps_kelvin, lines 72-99; degrees in hundredths.               *)
(***************************************************************************)
K == 27315

initial_temps_kelvin(bucket) ==
    LET c == IF bucket = "low"
             THEN [cool |-> 620, fuel |-> 750, mod |-> 740, shell |-> 730]
             ELSE IF bucket = "high"
             THEN [cool |-> 680, fuel |-> 850, mod |-> 840, shell |-> 820]
             ELSE [cool |-> 650, fuel |-> 800, mod |-> 800, shell |-> 770]
    IN  [kind |-> "ok",
         fuel |-> c.fuel * 100 + K, mod |-> c.mod * 100 + K,
         shell |-> c.shell * 100 + K, cool |-> c.cool * 100 + K]

(***************************************************************************)
(* Templates.  A chunk is literal text or one $NAME placeholder.           *)
(***************************************************************************)
Lit(s) == [ph |-> FALSE, s |-> s]

Ph(name) == [ph |-> TRUE, s |-> name]

\* the placeholders build_input_from_template documents (lines 106-115),
\* laid out as the generated decks are
TemplatePlain ==
    << Lit("tf = "), Ph("TF"),
       Lit(" * units.seconds\nt_mod = "), Ph("T_MOD0"),
       Lit("\nt_fuel = "), Ph("T_FUEL0"),
       Lit("\nt_shell = "), Ph("T_SHELL0"),
       Lit("\nt_cool = "), Ph("T_COOL0"),
       Lit("\npower_tot = "), Ph("POWER_TOT"),
       Lit(" * units.watt\ndelta_rho = "), Ph("DELTA_RHO"),
       Lit(" * units.pcm\nt_start = "), Ph("T_RAMP_START"),
       Lit(" * units.seconds\nt_end = "), Ph("T_RAMP_END"),
       Lit(" * units.seconds\n") >>

\* the template variant the deck pbfhr_runs/50-60-high-up was made from
TemplateBias ==
    << Lit("tf = "), Ph("TF"),
       Lit(" * units.seconds\nt_mod = "), Ph("T_MOD0"),
       Lit("\npower_tot = "), Ph("POWER_TOT"),
       Lit(" * units.watt\nrho_bias = "), Ph("RHO_BIAS_PCM"),
       Lit(" * units.pcm\ndelta_rho = "), Ph("DELTA_RHO_PCM"),
       Lit(" * units.pcm\nt_start = "), Ph("T_RAMP_START"),
       Lit(" * units.seconds\n") >>

\* a template that uses some of the values, one of them twice
TemplatePartial ==
    << Lit("# tf "), Ph("TF"), Lit("\ntf = "), Ph("TF"),
       Lit("\ndelta_rho = "), Ph("DELTA_RHO"), Lit("\n") >>

\* an unknown placeholder after known ones
TemplateLate ==
    << Lit("tf = "), Ph("TF"), Lit("\ndelta_rho = "), Ph("DELTA_RHO_PCM"),
       Lit("\nt_cool = "), Ph("T_COOL0"), Lit("\n") >>

TemplateNone == << Lit("nsteps = 5000\n") >>

Templates ==
    {TemplatePlain, TemplateBias, TemplatePartial, TemplateLate, TemplateNone}

(***************************************************************************)
(* build_input_from_template, lines 102-149.                               *)
(***************************************************************************)
Float(neg, mag) == [neg |-> neg, mag |-> mag]

\* unary minus on a float: the sign flips, also at zero
Negate(x) == [neg |-> ~x.neg, mag |-> x.mag]

RampEndNoPre(scen) ==
    LET tf            == PRE_RAMP_S + scen.t_ramp_s + POST_RAMP_S
        t_ramp_start  == PRE_RAMP_S
        t_ramp_end    == scen.t_ramp_s
    IN  [tf |-> tf, t_ramp_start |-> t_ramp_start, t_ramp_end |-> t_ramp_end]

\* lines 118-122
Timing(scen) ==
    LET tf            == PRE_RAMP_S + scen.t_ramp_s + POST_RAMP_S
        t_ramp_start  == PRE_RAMP_S
        t_ramp_end    == PRE_RAMP_S + scen.t_ramp_s
    IN  [tf |-> tf, t_ramp_start |-> t_ramp_start, t_ramp_end |-> t_ramp_end]

DeltaRhoUnsigned(scen) ==
    Float(FALSE, (RHO_RATE_PCM_PER_MIN * scen.t_ramp_s) \div 60)

\* lines 124-129: RHO_RATE_PCM_PER_MIN * (t_ramp_s / 60.0), negated for "down"
DeltaRho(scen) ==
    LET delta_rho_pcm ==
            Float(FALSE, (RHO_RATE_PCM_PER_MIN * scen.t_ramp_s) \div 60)
    IN  IF scen.direction = "down" THEN Negate(delta_rho_pcm)
        ELSE delta_rho_pcm

\* line 132: scen.p0 * P_NOM_TH, p0 in thousandths
PowerTot(scen) == scen.p0 * (P_NOM_TH \div 1000)

\* the locals of build_input_from_template before the substitution
Locals(scen) ==
    [timing |-> Timing(scen), delta_rho_pcm |-> DeltaRho(scen),
     power_tot |-> PowerTot(scen), temps |-> initial_temps_kelvin(scen.bucket)]

Keywords ==
    {"TF", "T_RAMP_START", "T_RAMP_END", "DELTA_RHO", "POWER_TOT",
     "T_FUEL0", "T_MOD0", "T_SHELL0", "T_COOL0"}

\* the keyword arguments of tmpl.substitute, lines 139-147
Mapping(v) ==
    [k \in Keywords |->
        CASE k = "TF"           -> Fixed6(FALSE, v.timing.tf, 1)
          [] k = "T_RAMP_START" -> Fixed6(FALSE, v.timing.t_ramp_start, 1)
          [] k = "T_RAMP_END"   -> Fixed6(FALSE, v.timing.t_ramp_end, 1)
          [] k = "DELTA_RHO"    ->
                 Fixed6(v.delta_rho_pcm.neg, v.delta_rho_pcm.mag, 1)
          [] k = "POWER_TOT"    -> Sci6(v.power_tot)
          [] k = "T_FUEL0"      ->
                 Fixed6(FALSE, v.temps.fuel, 100) \o " * units.kelvin"
          [] k = "T_MOD0"       ->
                 Fixed6(FALSE, v.temps.mod, 100) \o " * units.kelvin"
          [] k = "T_SHELL0"     ->
                 Fixed6(FALSE, v.temps.shell, 100) \o " * units.kelvin"
          [] k = "T_COOL0"      ->
                 Fixed6(FALSE, v.temps.cool, 100) \o " * units.kelvin"]

\* the index of the first placeholder of a template that mapping lacks, or 0
RECURSIVE FirstMissing(_, _, _)
FirstMissing(template, mapping, n) ==
    IF n > Len(template) THEN 0
    ELSE IF template[n].ph /\ template[n].s \notin DOMAIN mapping THEN n
    ELSE FirstMissing(template, mapping, n + 1)

Resolve(template, mapping) ==
    [n \in 1..Len(template) |->
        IF template[n].ph /\ template[n].s \in DOMAIN mapping
        THEN mapping[template[n].s] ELSE
        IF template[n].ph THEN "$" \o template[n].s ELSE template[n].s]

SafeSubstitute(template, mapping) ==
    [kind |-> "ok", text |-> Resolve(template, mapping)]

\* string.Template.substitute as line 138 calls it: left to right, KeyError
\* at the first placeholder without a value
Substitute(template, mapping) ==
    LET n == FirstMissing(template, mapping, 1)
    IN  IF n /= 0 THEN [kind |-> "KeyError", name |-> template[n].s]
        ELSE [kind |-> "ok", text |-> Resolve(template, mapping)]

build_input_from_template(template_text, scen) ==
    Substitute(template_text, Mapping(Locals(scen)))

(***************************************************************************)
(* main, lines 160-185: the manifest text.                                 *)
(***************************************************************************)
\* str(output_root / scen.run_name)
RunDir(run_name) == OUTPUT_ROOT \o "/" \o run_name

\* sep.join(lines), as chunks
RECURSIVE Join(_, _)
Join(lines, sep) ==
    IF Len(lines) = 0 THEN <<>>
    ELSE IF Len(lines) = 1 THEN <<lines[1]>>
    ELSE <<lines[1], sep>> \o Join(Tail(lines), sep)

\* line 183: "\n".join(manifest_lines) + "\n"
ManifestText(lines) == Join(lines, "\n") \o <<"\n">>

(***************************************************************************)
(* State.                                                                  *)
(***************************************************************************)
VARIABLES
    pc,               \* where main() stands
    run,              \* how many times main() has been started
    template_exists,  \* TEMPLATE_PATH exists on disk
    template_text,    \* its content
    scenarios,        \* the list generate_scenarios builds and returns
    gb, gp,           \* generate_scenarios: indices of the two loops
    i,                \* main: index of scen in scenarios
    locals,           \* build_input_from_template: its locals, last call
    input_text,       \* main: the deck rendered for scen
    files,            \* disk: run directory -> content of its input.py
    manifest_lines,   \* main: the list of run directories
    manifest,         \* disk: content of MANIFEST_PATH, <<>> when absent
    err,              \* the exception that ended main()
    manifest_writes,  \* history: writes of MANIFEST_PATH in this run
    written,          \* history: run directories written in this run
    prev              \* history: what generate_scenarios returned last run

vars ==
    <<pc, run, template_exists, template_text, scenarios, gb, gp, i, locals,
      input_text, files, manifest_lines, manifest, err, manifest_writes,
      written, prev>>

NoError == [kind |-> "none", name |-> ""]

\* a manifest left by an earlier version of the script
StaleManifest == <<"pbfhr_runs/50-60-high-up", "\n">>

\* no run yet: the disk holds the template or not, and perhaps an old manifest
Init ==
    /\ pc = "start"
    /\ scenarios = <<>>
    /\ gb = 1
    /\ gp = 1
    /\ i = 1
    /\ locals = <<>>
    /\ input_text = <<>>
    /\ manifest_lines = <<>>
    /\ err = NoError
    /\ manifest_writes = 0
    /\ written = <<>>
    /\ run = 1
    /\ template_exists \in BOOLEAN
    /\ template_text \in
           IF template_exists THEN {TemplatePlain, TemplateBias} ELSE {<<>>}
    /\ files = <<>>
    /\ manifest \in {<<>>, StaleManifest}
    /\ prev = <<>>

(***************************************************************************)
(* main, lines 160-185, and generate_scenarios as it runs inside it.       *)
(***************************************************************************)
\* lines 161-170: the template is read; generate_scenarios is entered
Start ==
    /\ pc = "start"
    /\ IF template_exists
       THEN /\ pc' = "generate"
            /\ scenarios' = <<>>
            /\ gb' = 1
            /\ gp' = 1
            /\ err' = err
       ELSE /\ pc' = "aborted"
            /\ err' = [kind |-> "FileNotFoundError",
                       name |-> "examples/pbfhr/input_template.py"]
            /\ UNCHANGED <<scenarios, gb, gp>>
    /\ UNCHANGED <<run, template_exists, template_text, i, locals, input_text,
                   files, manifest_lines, manifest, manifest_writes, written,
                   prev>>

\* lines 44-68: one iteration of the inner loop
GenerateIteration ==
    /\ pc = "generate"
    /\ ~LoopsDone(gb, gp)
    /\ scenarios' = scenarios \o LoopBody(TEMP_BUCKETS[gb], POWER_LEVELS[gp])
    /\ gb' = NextIteration(gb, gp)[1]
    /\ gp' = NextIteration(gb, gp)[2]
    /\ UNCHANGED <<pc, run, template_exists, template_text, i, locals,
                   input_text, files, manifest_lines, manifest, err,
                   manifest_writes, written, prev>>

\* lines 69, 170-173: the list is returned, manifest_lines starts empty
GenerateReturn ==
    /\ pc = "generate"
    /\ LoopsDone(gb, gp)
    /\ pc' = "loop"
    /\ i' = 1
    /\ manifest_lines' = <<>>
    /\ UNCHANGED <<run, template_exists, template_text, scenarios, gb, gp,
                   locals, input_text, files, manifest, err, manifest_writes,
                   written, prev>>

ContinueOnError(r) ==
    IF r.kind = "ok"
    THEN /\ pc' = "write"
         /\ input_text' = r.text
         /\ UNCHANGED <<i, err>>
    ELSE /\ pc' = "loop"
         /\ i' = i + 1
         /\ UNCHANGED <<err, input_text>>

\* line 177, when build_input_from_template returns r or raises r
RenderOutcome(r) ==
    IF r.kind = "ok"
    THEN /\ pc' = "write"
         /\ input_text' = r.text
         /\ UNCHANGED <<i, err>>
    ELSE /\ pc' = "aborted"
         /\ err' = r
         /\ UNCHANGED <<i, input_text>>

\* lines 175-177: the next scen is taken and its deck rendered
Render ==
    /\ pc = "loop"
    /\ i <= Len(scenarios)
    /\ locals' = <<Locals(scenarios[i])>>
    /\ RenderOutcome(build_input_from_template(template_text, scenarios[i]))
    /\ UNCHANGED <<run, template_exists, template_text, scenarios, gb, gp,
                   files, manifest_lines, manifest, manifest_writes, written,
                   prev>>

\* the file system with path holding text
WriteFile(fs, path, text) ==
    [q \in DOMAIN fs \cup {path} |-> IF q = path THEN text ELSE fs[q]]

\* line 178, write_input_file (lines 152-157): the deck is written, or an
\* OSError ends the run, before the file is opened or after it was truncated
WriteInputFile ==
    /\ pc = "write"
    /\ LET run_dir == RunDir(scenarios[i].run_name)
       IN  \/ /\ files' = WriteFile(files, run_dir, input_text)
              /\ written' = Append(written, run_dir)
              /\ pc' = "append"
              /\ err' = err
           \/ /\ files' \in {files, WriteFile(files, run_dir, <<>>)}
              /\ written' = written
              /\ pc' = "aborted"
              /\ err' = [kind |-> "OSError", name |-> run_dir]
    /\ UNCHANGED <<run, template_exists, template_text, scenarios, gb, gp, i,
                   locals, input_text, manifest_lines, manifest,
                   manifest_writes, prev>>

PrependLine(lines, run_dir) == <<run_dir>> \o lines

\* line 179: manifest_lines.append(str(run_dir))
AppendLine(lines, run_dir) == Append(lines, run_dir)

AppendManifestLine ==
    /\ pc = "append"
    /\ manifest_lines' =
           AppendLine(manifest_lines, RunDir(scenarios[i].run_name))
    /\ i' = i + 1
    /\ pc' = "loop"
    /\ UNCHANGED <<run, template_exists, template_text, scenarios, gb, gp,
                   locals, input_text, files, manifest, err, manifest_writes,
                   written, prev>>

\* lines 182-185: after the loop the manifest is written
WriteManifest ==
    /\ pc = "loop"
    /\ i > Len(scenarios)
    /\ manifest' = ManifestText(manifest_lines)
    /\ manifest_writes' = manifest_writes + 1
    /\ pc' = "done"
    /\ UNCHANGED <<run, template_exists, template_text, scenarios, gb, gp, i,
                   locals, input_text, files, manifest_lines, err, written,
                   prev>>

\* the script is started again: a new process on the same disk
Rerun ==
    /\ pc \in {"done", "aborted"}
    /\ run < MaxRuns
    /\ run' = run + 1
    /\ prev' = IF err.kind = "FileNotFoundError" THEN prev ELSE <<scenarios>>
    /\ pc' = "start"
    /\ scenarios' = <<>>
    /\ gb' = 1
    /\ gp' = 1
    /\ i' = 1
    /\ locals' = <<>>
    /\ input_text' = <<>>
    /\ manifest_lines' = <<>>
    /\ err' = NoError
    /\ manifest_writes' = 0
    /\ written' = <<>>
    /\ UNCHANGED <<template_exists, template_text, files, manifest>>

Next ==
    \/ Start
    \/ GenerateIteration
    \/ GenerateReturn
    \/ Render
    \/ WriteInputFile
    \/ AppendManifestLine
    \/ WriteManifest
    \/ Rerun

Spec == Init /\ [][Next]_vars

(***************************************************************************)
(* build_input_from_template and write_input_file on one Scenario of any   *)
(* content: the loop of main() over a list of one.                         *)
(***************************************************************************)
Elements(seq) == {seq[n] : n \in 1..Len(seq)}

UnitPowers == Elements(POWER_LEVELS) \cup {5, 295, 1000}

UnitBuckets == Elements(TEMP_BUCKETS) \cup {"hot", ""}

UnitRamps == 0..MaxRamp \cup {RAMP_TIME_S}

InitUnit ==
    /\ pc = "loop"
    /\ \E p0 \in UnitPowers, direction \in {"up", "down"},
          bucket \in UnitBuckets, t_ramp_s \in UnitRamps :
           scenarios = << Scenario(p0, direction, bucket, t_ramp_s,
                                   RunName(p0, bucket, direction)) >>
    /\ gb = 1
    /\ gp = 1
    /\ i = 1
    /\ locals = <<>>
    /\ input_text = <<>>
    /\ manifest_lines = <<>>
    /\ err = NoError
    /\ manifest_writes = 0
    /\ written = <<>>
    /\ run = 1
    /\ template_exists = TRUE
    /\ template_text \in Templates
    /\ files = <<>>
    /\ manifest = <<>>
    /\ prev = <<>>

NextUnit ==
    \/ Render
    \/ WriteInputFile
    \/ AppendManifestLine
    \/ WriteManifest

SpecUnit == InitUnit /\ [][NextUnit]_vars

(***************************************************************************)
(* Properties.                                                             *)
(***************************************************************************)
\* generate_scenarios has returned in this run
Generated == pc \in {"loop", "write", "append", "done"} \/
             (pc = "aborted" /\ err.kind /= "FileNotFoundError")

FullCount == 2 * Len(POWER_LEVELS) * Len(TEMP_BUCKETS)

\* the position of x in seq, 0 when absent
IndexOf(seq, x) ==
    IF \E n \in 1..Len(seq) : seq[n] = x
    THEN CHOOSE n \in 1..Len(seq) : seq[n] = x ELSE 0

\* the position of a label in TEMP_BUCKETS and of a level in POWER_LEVELS
BucketIndex == [x \in UnitBuckets |-> IndexOf(TEMP_BUCKETS, x)]

LevelIndex == [x \in UnitPowers |-> IndexOf(POWER_LEVELS, x)]

\* C1: the run names of the scenarios generate_scenarios has built are
\* pairwise distinct, at every point of the generation and after it.
C1_RunNamesDistinct ==
    \A a \in 1..Len(scenarios) : \A b \in (a + 1)..Len(scenarios) :
        scenarios[a].run_name /= scenarios[b].run_name

C1_Witness ==
    /\ Generated
    /\ Len(scenarios) = FullCount
    /\ \E a, b \in 1..Len(scenarios) :
           /\ scenarios[a].run_name = "init20-low-up"
           /\ scenarios[b].run_name = "init20-high-up"

\* C2: when main() has run to completion the manifest holds, for the k-th
\* scenario, the path OUTPUT_ROOT/<run_name> as its k-th line, each line
\* ended by a newline, and nothing else.
C2_ManifestListsScenarios ==
    pc = "done" =>
        /\ Len(manifest) = 2 * Len(scenarios)
        /\ \A k \in 1..Len(scenarios) :
               /\ manifest[2 * k - 1] =
                      "pbfhr_runs/" \o scenarios[k].run_name
               /\ manifest[2 * k] = "\n"

C2_Witness ==
    /\ pc = "done"
    /\ Len(scenarios) = FullCount
    /\ manifest[1] = "pbfhr_runs/init20-low-up"
    /\ manifest[2 * FullCount - 1] = "pbfhr_runs/init80-high-down"

\* C3: a run that a failed rendering or a failed write of scenario i ended
\* has processed exactly the scenarios before i, processes nothing more and
\* has not written the manifest; the manifest is written only once, after
\* every scenario was rendered and written.
C3_FailFast ==
    /\ (pc = "aborted" /\ err.kind \in {"KeyError", "OSError"}) =>
           /\ manifest_writes = 0
           /\ i <= Len(scenarios)
           /\ Len(written) = i - 1
           /\ Len(manifest_lines) = i - 1
           /\ ~ ENABLED (Render \/ WriteInputFile \/ AppendManifestLine
                            \/ WriteManifest)
    /\ manifest_writes > 0 =>
           /\ manifest_writes = 1
           /\ pc = "done"
           /\ err = NoError
           /\ Len(written) = Len(scenarios)

C3_Witness ==
    /\ pc = "aborted"
    /\ err.kind = "OSError"
    /\ i > 1
    /\ i < Len(scenarios)
    /\ manifest = <<>>

\* C4: after initial_temps_kelvin was called with a label other than low,
\* nominal and high, the call has failed with InvalidBucket and has
\* returned no temperatures.
C4_InvalidBucketRejected ==
    (locals /= <<>> /\ scenarios[1].bucket \notin {"low", "nominal", "high"})
        => locals[1].temps.kind = "InvalidBucket"

\* the names of the placeholders of a template that get no value
Unresolved(template) ==
    {template[n].s : n \in {m \in 1..Len(template) :
                                template[m].ph /\ template[m].s \notin Keywords}}

C6_FixedMagnitudeEnumeration ==
    Generated =>
        /\ Len(scenarios) = 2 * Len(POWER_LEVELS) * Len(TEMP_BUCKETS)
        /\ \A b \in 1..Len(TEMP_BUCKETS), p \in 1..Len(POWER_LEVELS),
              d \in {"up", "down"} :
               Cardinality({k \in 1..Len(scenarios) :
                   /\ scenarios[k].bucket = TEMP_BUCKETS[b]
                   /\ scenarios[k].p0 = POWER_LEVELS[p]
                   /\ scenarios[k].direction = d}) = 1
        /\ \A k \in 1..Len(scenarios) :
               /\ scenarios[k].t_ramp_s = RAMP_TIME_S
               /\ scenarios[k].direction \in {"up", "down"}
               /\ IndexOf(TEMP_BUCKETS, scenarios[k].bucket) /= 0
               /\ IndexOf(POWER_LEVELS, scenarios[k].p0) /= 0

C6_Witness ==
    /\ pc = "loop"
    /\ i = 1
    /\ Len(scenarios) = 30
    /\ scenarios[30].p0 = 800
    /\ scenarios[30].direction = "down"
    /\ scenarios[30].t_ramp_s = 300

\* C7: what generate_scenarios returns follows the adjacent-pair strategy:
\* an "up" scenario starts at a level only when the level is below the
\* maximum of the ladder, a "down" scenario ends at a level only when it
\* exceeds the minimum, and a run name encodes both endpoints of the ramp,
\* so that 50-60-high-up is among the names.
C7_AdjacentPairStrategy ==
    Generated =>
        /\ \A k \in 1..Len(scenarios) :
               /\ scenarios[k].direction = "up" =>
                      scenarios[k].p0 < POWER_LEVELS[Len(POWER_LEVELS)]
               /\ scenarios[k].direction = "down" =>
                      scenarios[k].p0 > POWER_LEVELS[1]
        /\ \E k \in 1..Len(scenarios) :
               scenarios[k].run_name = "50-60-high-up"

\* C8: in the list generate_scenarios builds, a scenario of an earlier
\* bucket of TEMP_BUCKETS precedes one of a later bucket, and within a
\* bucket a scenario of an earlier level of POWER_LEVELS precedes one of a
\* later level; a later run on the same configuration returns the list the
\* run before it returned.
C8_StableOrder ==
    /\ \A a \in 1..Len(scenarios) : \A b \in (a + 1)..Len(scenarios) :
           /\ BucketIndex[scenarios[a].bucket]
                  <= BucketIndex[scenarios[b].bucket]
           /\ scenarios[a].bucket = scenarios[b].bucket =>
                  LevelIndex[scenarios[a].p0] <= LevelIndex[scenarios[b].p0]
    /\ (Generated /\ prev /= <<>>) => scenarios = prev[1]

C8_Witness ==
    /\ run = 2
    /\ pc = "done"
    /\ prev /= <<>>
    /\ Len(scenarios) = FullCount
    /\ scenarios[1].bucket = "low"
    /\ scenarios[FullCount].bucket = "high"

\* C9: the reactivity delta build_input_from_template computes has the
\* magnitude RHO_RATE_PCM_PER_MIN x t_ramp_s / 60, whatever the direction,
\* and is negative exactly when the direction is "down".
C9_ReactivityDelta ==
    locals /= <<>> =>
        /\ locals[1].delta_rho_pcm.mag * 60 =
               RHO_RATE_PCM_PER_MIN * scenarios[1].t_ramp_s
        /\ locals[1].delta_rho_pcm.neg <=> scenarios[1].direction = "down"

C9_Witness ==
    /\ locals /= <<>>
    /\ scenarios[1].direction = "down"
    /\ scenarios[1].t_ramp_s = 300
    /\ locals[1].delta_rho_pcm = [neg |-> TRUE, mag |-> 1200]
    /\ template_text = TemplatePlain
    /\ pc = "write"
    /\ input_text[14] = "-1200.000000"

\* C10: the times build_input_from_template computes satisfy
\* TF = pre-ramp + ramp duration + post-ramp, ramp start = pre-ramp,
\* ramp end = ramp start + ramp duration, so that
\* 0 <= ramp start <= ramp end <= TF and TF - ramp end = post-ramp.
C10_Timing ==
    locals /= <<>> =>
        LET t == locals[1].timing
            d == scenarios[1].t_ramp_s
        IN  /\ t.tf = PRE_RAMP_S + d + POST_RAMP_S
            /\ t.t_ramp_start = PRE_RAMP_S
            /\ t.t_ramp_end = t.t_ramp_start + d
            /\ 0 <= t.t_ramp_start
            /\ t.t_ramp_start <= t.t_ramp_end
            /\ t.t_ramp_end <= t.tf
            /\ t.tf - t.t_ramp_end = POST_RAMP_S

C10_Witness ==
    /\ locals /= <<>>
    /\ scenarios[1].t_ramp_s = 300
    /\ locals[1].timing =
           [tf |-> 307, t_ramp_start |-> 2, t_ramp_end |-> 302]
    /\ template_text = TemplatePlain
    /\ pc = "write"
    /\ input_text[2] = "307.000000"
    /\ input_text[18] = "302.000000"
====
